---- MODULE Spec2Model ----
(***************************************************************************)
(* One-to-many sync tool (ui_copy_tool.py): CopyApp.start_copy walks the   *)
(* selected destinations in order; for each it calls ensure_path_mapped    *)
(* and, when that returns true, copy_recursively over the source tree.     *)
(* The file system, the platform, the credential dialogs and the external  *)
(* "net use" command are the environment: their answers are drawn with \E. *)
(***************************************************************************)
EXTENDS Integers, Sequences, FiniteSets, TLC

VARIABLES
    system,              \* platform.system()
    srcState,            \* source folder: "ok", "unreadable" (listing denied), "missing"
    srcTree,             \* source tree: directory path -> [dirs, files]
    ignored_extensions,  \* CopyApp.ignored_extensions
    htype,               \* machine_vars[name] host type
    checked,             \* machine_vars[name] checkbox variable
    dstDirs,             \* per destination: directories that exist (<<>> is the destination path)
    dstFiles,            \* per destination: file -> stat (exists, size, mtime)
    progress,            \* self.progress["value"]
    pc,                  \* position inside start_copy
    selected,            \* start_copy's list of selected destinations
    idx,                 \* index of the destination being processed
    dirIdx,              \* copy_recursively: index in os.walk(src)
    fileIdx,             \* copy_recursively: index in the current directory's files
    total_files,         \* copy_recursively: total_files
    copied,              \* copy_recursively: copied
    dialogs,             \* message boxes shown by the current start_copy call
    reach,               \* per destination: outcome of its run in the current call
    log,                 \* per destination, per file: log records of the current call
    calls,               \* progress_callback invocations of the current copy_recursively
    last,                \* the last file decision taken (pre-state and decision)
    prevReach,           \* reach of the previous start_copy call
    prevLog,             \* log of the previous start_copy call
    runs,                \* number of start_copy calls so far
    faults               \* number of injected I/O failures so far

vars == <<system, srcState, srcTree, ignored_extensions, htype, checked, dstDirs, dstFiles,
          progress, pc, selected, idx, dirIdx, fileIdx, total_files, copied,
          dialogs, reach, log, calls, last, prevReach, prevLog, runs, faults>>

----------------------------------------------------------------------------
(* Bounds *)

MaxRuns == 2

MaxFaults == 1

----------------------------------------------------------------------------
(* Environment domains *)

Dests == <<"d1", "d2">>

DestSet == {Dests[i] : i \in 1..Len(Dests)}

\* "Darwin" takes the branch of "Linux" at line 135
Systems == {"Windows", "Linux"}

HostTypes == {"local", "smb"}

a_txt == <<"a", ".", "t", "x", "t">>

b_tmp == <<"b", ".", "t", "m", "p">>

x_TMP == <<"x", ".", "T", "M", "P">>

x_tmp2 == <<"x", ".", "t", "m", "p", "2">>

dot_tmp == <<".", "t", "m", "p">>

dot_TMP == <<".", "T", "M", "P">>

dot_txt == <<".", "t", "x", "t">>

\* a.txt and b.tmp directly under the source root, no subdirectory
TreeFlat == (<<>> :> [dirs |-> <<>>, files |-> <<a_txt, b_tmp>>])

\* nested and empty subdirectories
TreeDeep ==
    (<<>> :> [dirs |-> <<"sub", "empty">>, files |-> <<x_TMP>>])
    @@ (<<"sub">> :> [dirs |-> <<"deep">>, files |-> <<x_tmp2>>])
    @@ (<<"sub", "deep">> :> [dirs |-> <<>>, files |-> <<a_txt>>])
    @@ (<<"empty">> :> [dirs |-> <<>>, files |-> <<>>])

\* a source folder with nothing in it
TreeEmpty == (<<>> :> [dirs |-> <<>>, files |-> <<>>])

SrcTrees == {TreeFlat, TreeDeep, TreeEmpty}

IgnoreLists == {<<>>, <<dot_tmp>>, <<dot_TMP, dot_txt>>}

TicksPerSec == 2

NoFile == [exists |-> FALSE, size |-> 0, mtime |-> 0]

Stat(s, m) == [exists |-> TRUE, size |-> s, mtime |-> m]

\* every source file: 3 bytes, modified at 2.5 s (mtime in ticks of 1/TicksPerSec s)
SrcStat == Stat(3, 5)

\* what a destination may hold for every file before the first run: the first
\* destination anything, the others nothing
DstPresets(d) ==
    IF d = Dests[1]
    THEN {NoFile, Stat(3, 5), Stat(3, 4), Stat(3, 3), Stat(4, 5)}
    ELSE {NoFile}

AllFiles(t) == UNION {{<<p, t[p].files[i]>> : i \in 1..Len(t[p].files)} : p \in DOMAIN t}

Prefixes(p) == {SubSeq(p, 1, k) : k \in 0..Len(p)}

LogKinds == {"Ignored", "Copied", "Skipped", "Error"}

----------------------------------------------------------------------------
(* Pure functions *)

\* str.lower() on one character of the model's alphabet
LowerChar(c) ==
    CASE c = "T" -> "t"
      [] c = "M" -> "m"
      [] c = "P" -> "p"
      [] c = "X" -> "x"
      [] OTHER -> c

lower(s) == [i \in 1..Len(s) |-> LowerChar(s[i])]

endswith(s, suf) ==
    /\ Len(suf) <= Len(s)
    /\ SubSeq(s, Len(s) - Len(suf) + 1, Len(s)) = suf

\* the suffix test without lower(): case-sensitive
IsIgnoredCaseSensitive(f, exts) ==
    /\ exts # <<>>
    /\ \E i \in 1..Len(exts) : endswith(f, exts[i])

\* line 80: ignored_exts and any(f.lower().endswith(ext.lower()) for ext in ignored_exts)
IsIgnored(f, exts) ==
    /\ exts # <<>>
    /\ \E i \in 1..Len(exts) : endswith(lower(f), lower(exts[i]))

\* int(st_mtime): whole seconds of a modification time
IntSeconds(m) == m \div TicksPerSec

\* the comparison without int(): exact modification times
files_are_identical_exact(src, dst) ==
    IF ~src.exists \/ ~dst.exists
    THEN FALSE
    ELSE /\ src.size = dst.size
         /\ src.mtime = dst.mtime

\* lines 53-60; a missing file raises FileNotFoundError, caught: False
files_are_identical(src, dst) ==
    IF ~src.exists \/ ~dst.exists
    THEN FALSE
    ELSE /\ src.size = dst.size
         /\ IntSeconds(src.mtime) = IntSeconds(dst.mtime)

\* line 88: not dst_file.exists() or not files_are_identical(src_file, dst_file)
NeedsCopy(src, dst) == ~dst.exists \/ ~files_are_identical(src, dst)

\* shutil.copy in place of copy2: the copy is stamped with the time of the copy
copy_without_stat(src) == Stat(src.size, src.mtime + TicksPerSec)

\* shutil.copy2: content (size) and modification time of the source
copy2(src) == Stat(src.size, src.mtime)

\* shutil.copy2 failing after it opened the destination: an empty file, stamped with
\* the time of the attempt
truncated_copy(src) == Stat(0, src.mtime + TicksPerSec)

RECURSIVE WalkFrom(_, _), WalkDirs(_, _, _)
WalkDirs(t, p, i) ==
    IF i > Len(t[p].dirs)
    THEN <<>>
    ELSE WalkFrom(t, Append(p, t[p].dirs[i])) \o WalkDirs(t, p, i + 1)

WalkFrom(t, p) == <<p>> \o WalkDirs(t, p, 1)

\* os.walk(src), top-down; a root that cannot be listed yields nothing (onerror=None)
os_walk(t, st) == IF st = "ok" THEN WalkFrom(t, <<>>) ELSE <<>>

RECURSIVE SumFiles(_, _, _)
SumFiles(t, w, i) ==
    IF i > Len(w) THEN 0 ELSE Len(t[w[i]].files) + SumFiles(t, w, i + 1)

\* lines 62-66
count_total_files(t, st) == SumFiles(t, os_walk(t, st), 1)

\* lines 315-319: the value of the progress bar after update_progress(current, total);
\* int((current / total) * 100) is the integer quotient for the totals drawn here
update_progress(old, current, total) ==
    IF total = 0 THEN old ELSE (current * 100) \div total

\* lines 100-138: the value ensure_path_mapped returns, given the answers of the
\* environment: existence before, credentials, the command's outcome, existence after
ensure_path_mapped(ht, existsBefore, sys, username, password, cmd, existsAfter) ==
    IF ht = "local" THEN existsBefore
    ELSE IF existsBefore THEN TRUE
    ELSE IF sys = "Windows"
         THEN IF username = "" \/ password = "" THEN FALSE
              ELSE IF cmd = "rc0" THEN TRUE
              ELSE existsAfter
         ELSE existsAfter

\* lines 112-126: the "net use" command runs only on this path
RunsNetUse(ht, existsBefore, sys, username, password) ==
    /\ ht = "smb"
    /\ ~existsBefore
    /\ sys = "Windows"
    /\ username # ""
    /\ password # ""

----------------------------------------------------------------------------
(* State after construction *)

NoLog(t) == [d \in DestSet |-> [f \in AllFiles(t) |-> {}]]

NoReach == [d \in DestSet |-> "none"]

NoDecision ==
    [valid |-> FALSE, dest |-> "", file |-> <<>>, before |-> NoFile,
     parent |-> FALSE, attempted |-> FALSE, ok |-> FALSE]

\* line 326: the checked destinations, in machine_vars order
Selected(chk) == LET In(d) == chk[d] IN SelectSeq(Dests, In)

Init ==
    /\ system \in Systems
    /\ srcState \in {"ok", "unreadable", "missing"}
    /\ srcTree \in SrcTrees
    /\ ignored_extensions \in IgnoreLists
    /\ htype \in [DestSet -> HostTypes]
    /\ checked = [d \in DestSet |-> FALSE]
    /\ \E present \in [DestSet -> BOOLEAN], preset \in [DestSet -> UNION {DstPresets(d) : d \in DestSet}] :
         /\ \A d \in DestSet : preset[d] \in DstPresets(d)
         /\ dstDirs = [d \in DestSet |->
                         IF ~present[d] THEN {}
                         ELSE IF preset[d].exists THEN DOMAIN srcTree ELSE {<<>>}]
         /\ dstFiles = [d \in DestSet |->
                          [f \in AllFiles(srcTree) |->
                             IF present[d] THEN preset[d] ELSE NoFile]]
    /\ progress = 0
    /\ pc = "idle"
    /\ selected = <<>>
    /\ idx = 0
    /\ dirIdx = 0
    /\ fileIdx = 0
    /\ total_files = 0
    /\ copied = 0
    /\ dialogs = <<>>
    /\ reach = NoReach
    /\ log = NoLog(srcTree)
    /\ calls = <<>>
    /\ last = NoDecision
    /\ prevReach = NoReach
    /\ prevLog = NoLog(srcTree)
    /\ runs = 0
    /\ faults = 0

----------------------------------------------------------------------------
(* Operations *)

Cur == selected[idx]

Walk == os_walk(srcTree, srcState)

Exists(d) == <<>> \in dstDirs[d]

config == <<system, srcState, srcTree, ignored_extensions, htype>>

history == <<reach, log, calls, last, prevReach, prevLog>>

walkPos == <<dirIdx, fileIdx, total_files, copied>>

\* line 331: the for loop takes the next selected destination, or ends
NextDest ==
    IF idx < Len(selected)
    THEN idx' = idx + 1 /\ pc' = "check"
    ELSE idx' = idx /\ pc' = "finish"

\* lines 72, 79: the walk moves to the next directory, or ends
NextDir ==
    IF dirIdx < Len(Walk)
    THEN dirIdx' = dirIdx + 1 /\ fileIdx' = 0 /\ pc' = "dir"
    ELSE dirIdx' = dirIdx /\ fileIdx' = 0 /\ pc' = "end"

\* line 301: the user ticks a destination's checkbox, before the first sync
CheckDest ==
    /\ pc = "idle"
    /\ runs = 0
    /\ \E d \in DestSet :
         /\ ~checked[d]
         /\ checked' = [checked EXCEPT ![d] = TRUE]
    /\ UNCHANGED <<config, dstDirs, dstFiles, progress, pc, selected, idx, walkPos,
                   dialogs, history, runs, faults>>

\* a return in place of line 335's continue: the loop is left
ContinueReturns == idx' = idx /\ pc' = "finish"

\* line 335: continue with the next destination
Continue == NextDest

\* lines 321-329: the Start Sync button
StartCopy ==
    /\ pc = "idle"
    /\ runs < MaxRuns
    /\ runs' = runs + 1
    /\ prevReach' = reach
    /\ prevLog' = log
    /\ reach' = NoReach
    /\ log' = NoLog(srcTree)
    /\ last' = NoDecision
    /\ calls' = <<>>
    /\ IF srcState = "missing"
       THEN /\ dialogs' = <<"Error: Source path is not valid.">>
            /\ UNCHANGED <<pc, selected, idx>>
       ELSE IF Selected(checked) = <<>>
       THEN /\ dialogs' = <<"Error: No destination machines selected.">>
            /\ UNCHANGED <<pc, selected, idx>>
       ELSE /\ dialogs' = <<>>
            /\ selected' = Selected(checked)
            /\ idx' = 1
            /\ pc' = "check"
    /\ UNCHANGED <<config, checked, dstDirs, dstFiles, progress, walkPos, faults>>

\* lines 332-335 with ensure_path_mapped (100-138)
CheckReach ==
    /\ pc = "check"
    /\ \E username \in {"", "user"}, password \in {"", "secret"},
          cmd \in {"rc0", "rc1", "exception"}, visible \in BOOLEAN :
         LET d == Cur
             before == Exists(d)
             ran == RunsNetUse(htype[d], before, system, username, password)
             after == IF ran /\ cmd = "rc0" /\ visible THEN TRUE ELSE before
             ok == ensure_path_mapped(htype[d], before, system, username, password, cmd, after)
             asked == htype[d] = "smb" /\ ~before /\ system = "Windows"
             credErr == IF asked /\ ~ran
                        THEN <<"Error: Username and password required to map share.">>
                        ELSE <<>>
         IN  /\ dstDirs' = [dstDirs EXCEPT ![d] = IF after THEN @ \cup {<<>>} ELSE @]
             /\ IF ok
                THEN /\ pc' = "begin"
                     /\ UNCHANGED <<idx, dialogs, reach>>
                ELSE /\ dialogs' = dialogs \o credErr \o <<"Mapping Failed">>
                     /\ reach' = [reach EXCEPT ![d] = "unreachable"]
                     /\ Continue
    /\ UNCHANGED <<config, checked, dstFiles, progress, selected, walkPos, log, calls, last,
                   prevReach, prevLog, runs, faults>>

\* the bar left as the previous destination set it
KeepProgress == progress

\* line 338
ResetProgress == 0

\* lines 338-340 and 69-72: reset the bar, count the files, start the walk
BeginCopy ==
    /\ pc = "begin"
    /\ progress' = ResetProgress
    /\ total_files' = count_total_files(srcTree, srcState)
    /\ copied' = 0
    /\ calls' = <<>>
    /\ IF Len(Walk) > 0
       THEN dirIdx' = 1 /\ fileIdx' = 0 /\ pc' = "dir"
       ELSE dirIdx' = 0 /\ fileIdx' = 0 /\ pc' = "end"
    /\ UNCHANGED <<config, checked, dstDirs, dstFiles, selected, idx, dialogs, reach, log, last,
                   prevReach, prevLog, runs, faults>>

\* Path.mkdir(parents=True, exist_ok=True) for the first k subdirectories of p
MkDirs(have, p, k) ==
    have \cup UNION {Prefixes(Append(p, srcTree[p].dirs[i])) : i \in 1..k}

\* lines 72-77: visit a directory of the walk and create its subdirectories
VisitDir ==
    /\ pc = "dir"
    /\ LET p == Walk[dirIdx]
           n == Len(srcTree[p].dirs)
       IN  \/ /\ dstDirs' = [dstDirs EXCEPT ![Cur] = MkDirs(@, p, n)]
              /\ IF Len(srcTree[p].files) > 0
                 THEN fileIdx' = 1 /\ pc' = "file" /\ dirIdx' = dirIdx
                 ELSE NextDir
              /\ UNCHANGED <<idx, dialogs, reach, faults>>
           \* mkdir raises on subdirectory k+1: caught at lines 342-344
           \/ /\ faults < MaxFaults
              /\ faults' = faults + 1
              /\ \E k \in 0..(n - 1) :
                   dstDirs' = [dstDirs EXCEPT ![Cur] = MkDirs(@, p, k)]
              /\ dialogs' = Append(dialogs, "Copy Failed")
              /\ reach' = [reach EXCEPT ![Cur] = "failed"]
              /\ NextDest
              /\ UNCHANGED <<dirIdx, fileIdx>>
    /\ UNCHANGED <<config, checked, dstFiles, progress, selected, total_files, copied, log, calls,
                   last, prevReach, prevLog, runs>>

\* "Copied" logged before shutil.copy2 is called
TryCopyLogsEarly(needs, ok) ==
    IF needs THEN (IF ok THEN {"Copied"} ELSE {"Copied", "Error"}) ELSE {"Skipped"}

\* lines 87-94: the log records of one file that is not ignored
TryCopyLogs(needs, ok) ==
    IF needs THEN (IF ok THEN {"Copied"} ELSE {"Error"}) ELSE {"Skipped"}

\* lines 96-98: count the file and report
Report ==
    /\ copied' = copied + 1
    /\ calls' = Append(calls, <<copied + 1, total_files>>)
    /\ progress' = update_progress(progress, copied + 1, total_files)

\* lines 79, 99: the next file of the directory, or the next directory
NextFile ==
    IF fileIdx < Len(srcTree[Walk[dirIdx]].files)
    THEN fileIdx' = fileIdx + 1 /\ dirIdx' = dirIdx /\ pc' = "file"
    ELSE NextDir

\* lines 79-98: one file of the current directory
ProcessFile ==
    /\ pc = "file"
    /\ LET p == Walk[dirIdx]
           name == srcTree[p].files[fileIdx]
           f == <<p, name>>
           d == Cur
           dst == dstFiles[d][f]
           needs == NeedsCopy(SrcStat, dst)
           parent == p \in dstDirs[d]
       IN  IF IsIgnored(name, ignored_extensions)
           THEN /\ log' = [log EXCEPT ![d][f] = @ \cup {"Ignored"}]
                /\ UNCHANGED <<dstFiles, copied, calls, progress, last, faults>>
           ELSE /\ \E ok \in BOOLEAN, partial \in BOOLEAN :
                     \* copy2 cannot create a file in a directory that does not exist;
                     \* any other failure (permission, disk full) is the environment's
                     /\ ok => parent
                     /\ (needs /\ ~ok /\ parent) => faults < MaxFaults
                     /\ ~needs => ok
                     /\ partial => (needs /\ ~ok /\ parent)
                     /\ faults' = IF needs /\ ~ok /\ parent THEN faults + 1 ELSE faults
                     /\ dstFiles' = IF needs /\ ok
                                    THEN [dstFiles EXCEPT ![d][f] = copy2(SrcStat)]
                                    ELSE IF partial
                                    THEN [dstFiles EXCEPT ![d][f] = truncated_copy(SrcStat)]
                                    ELSE dstFiles
                     /\ log' = [log EXCEPT ![d][f] = @ \cup TryCopyLogs(needs, ok)]
                     /\ last' = [valid |-> TRUE, dest |-> d, file |-> f, before |-> dst,
                                 parent |-> parent, attempted |-> needs, ok |-> ok]
                /\ Report
    /\ NextFile
    /\ UNCHANGED <<config, checked, dstDirs, selected, idx, total_files, dialogs, reach,
                   prevReach, prevLog, runs>>

\* line 341: copy_recursively returned
FinishDest ==
    /\ pc = "end"
    /\ reach' = [reach EXCEPT ![Cur] = "completed"]
    /\ NextDest
    /\ UNCHANGED <<config, checked, dstDirs, dstFiles, progress, selected, walkPos, dialogs, log,
                   calls, last, prevReach, prevLog, runs, faults>>

\* lines 346-347: the final notice, then the bar back to 0
Finish ==
    /\ pc = "finish"
    /\ dialogs' = Append(dialogs, "Done: Sync completed.")
    /\ progress' = 0
    /\ pc' = "idle"
    \* start_copy returns: its locals and those of copy_recursively are gone
    /\ selected' = <<>>
    /\ idx' = 0
    /\ dirIdx' = 0
    /\ fileIdx' = 0
    /\ total_files' = 0
    /\ copied' = 0
    /\ calls' = <<>>
    /\ last' = NoDecision
    /\ UNCHANGED <<config, checked, dstDirs, dstFiles, reach, log, prevReach, prevLog, runs, faults>>

Next ==
    \/ CheckDest
    \/ StartCopy
    \/ CheckReach
    \/ BeginCopy
    \/ VisitDir
    \/ ProcessFile
    \/ FinishDest
    \/ Finish

Spec == Init /\ [][Next]_vars

\* destinations that hold no file yet, with the ignore list [".tmp"]
InitFresh ==
    /\ Init
    /\ ignored_extensions = <<dot_tmp>>
    /\ \A d \in DestSet : \A f \in AllFiles(srcTree) : ~dstFiles[d][f].exists

\* the scheduling of the code: start_copy is one call that runs to its return
FairSpec == InitFresh /\ [][Next]_vars /\ WF_vars(Next)

----------------------------------------------------------------------------
(* Claims *)

DoneNotice == "Done: Sync completed."

WalkFiles == UNION {{<<Walk[i], srcTree[Walk[i]].files[j]>> :
                        j \in 1..Len(srcTree[Walk[i]].files)} : i \in 1..Len(Walk)}

Processed(d, f) == log[d][f] # {}

InCopy == pc \in {"dir", "file", "end"}

C1_State ==
    /\ \A d \in DestSet :
         /\ reach[d] = "unreachable" => \A f \in AllFiles(srcTree) : log[d][f] = {}
         /\ reach[d] = "completed" => \A f \in WalkFiles : Processed(d, f)
    /\ (pc \in {"idle", "finish"} /\ dialogs # <<>> /\ dialogs[1] # "Error: Source path is not valid."
           /\ dialogs[1] # "Error: No destination machines selected.")
         => \A d \in DestSet : checked[d] => reach[d] \in {"unreachable", "failed", "completed"}
    /\ (pc = "idle" /\ \E d \in DestSet : reach[d] # "none")
         => dialogs[Len(dialogs)] = DoneNotice

\* C1: a destination whose run fails (unreachable, or an error raised while
\* copy_recursively runs for it) is the only one affected: nothing is copied to an
\* unreachable destination, every other checked destination gets its own outcome and,
\* when its run completes, has had every file of the walk processed, and a started
\* run always ends with the final completion notice.
C1_FailureIsolation ==
    /\ []C1_State
    /\ (pc # "idle") ~> (pc = "idle" /\ dialogs # <<>> /\ dialogs[Len(dialogs)] = DoneNotice)

C1_Witness ==
    /\ pc = "idle"
    /\ reach["d1"] = "unreachable"
    /\ reach["d2"] = "completed"
    /\ \E f \in AllFiles(srcTree) : "Copied" \in log["d2"][f]
    /\ dialogs[Len(dialogs)] = DoneNotice

\* C2: the processed values passed to the progress callback during one run of
\* copy_recursively never decrease and the last one equals total, the count of every
\* file under the source root, ignored files included.
C2_FinalProgressEqualsTotal ==
    /\ \A i \in 1..Len(calls) : \A j \in i..Len(calls) : calls[i][1] <= calls[j][1]
    /\ (pc = "end" /\ total_files > 0)
         => (calls # <<>> /\ calls[Len(calls)][1] = total_files)

\* C3: ensure_path_mapped returns true only if the path exists when it returns.
C3_TrueOnlyIfExists == pc = "begin" => Exists(Cur)

Differs(src, dst) ==
    \/ ~dst.exists
    \/ dst.size # src.size
    \/ (dst.mtime \div TicksPerSec) # (src.mtime \div TicksPerSec)

\* C5: a file that is not ignored is copied if and only if the destination file
\* does not exist, or its size differs, or its modification time in whole seconds
\* differs; a difference below one second alone causes no copy.
C5_CopyIffChanged ==
    last.valid =>
      /\ last.attempted <=> Differs(SrcStat, last.before)
      /\ (last.attempted /\ last.ok) <=> "Copied" \in log[last.dest][last.file]
      /\ (last.attempted /\ last.ok) => dstFiles[last.dest][last.file] = SrcStat

C5_Witness ==
    /\ last.valid
    /\ last.before.exists
    /\ last.before.size = SrcStat.size
    /\ last.before.mtime # SrcStat.mtime
    /\ ~last.attempted
    /\ log[last.dest][last.file] = {"Skipped"}

\* the name ends, case-insensitively, with one of the suffixes
SuffixCI(name, exts) ==
    \E i \in 1..Len(exts) :
      LET e == exts[i]
          k == Len(name) - Len(e)
      IN  /\ k >= 0
          /\ \A j \in 1..Len(e) : LowerChar(name[k + j]) = LowerChar(e[j])

\* C6: a source file is ignored, and never written to a destination, if and only if
\* its name, compared case-insensitively, ends with one of the suffixes of the ignore
\* list: x.TMP is ignored under .tmp, x.tmp2 is not, an empty list ignores nothing.
C6_IgnoredIffSuffix ==
    /\ \A d \in DestSet : \A f \in AllFiles(srcTree) :
         /\ Processed(d, f) =>
              ("Ignored" \in log[d][f] <=> SuffixCI(f[2], ignored_extensions))
         /\ "Ignored" \in log[d][f] => log[d][f] = {"Ignored"}
         /\ (ignored_extensions = <<>>) => "Ignored" \notin log[d][f]
         /\ (ignored_extensions = <<dot_tmp>> /\ Processed(d, f)) =>
              /\ f[2] = x_TMP => "Ignored" \in log[d][f]
              /\ f[2] = x_tmp2 => "Ignored" \notin log[d][f]
    /\ last.valid => ~SuffixCI(last.file[2], ignored_extensions)

C6_Witness ==
    /\ srcTree = TreeDeep
    /\ ignored_extensions = <<dot_tmp>>
    /\ \E d \in DestSet :
         /\ log[d][<<<<>>, x_TMP>>] = {"Ignored"}
         /\ ~dstFiles[d][<<<<>>, x_TMP>>].exists
         /\ log[d][<<<<"sub">>, x_tmp2>>] = {"Copied"}

\* C7: for every destination that is synced, the destination counterpart of each
\* source directory exists before a file of that directory is attempted, and after a
\* completed run every source subdirectory exists under the destination.
C7_DirectoryBeforeFiles ==
    /\ last.valid => last.parent
    /\ \A d \in DestSet :
         (reach[d] = "completed" /\ srcState = "ok")
           => (DOMAIN srcTree) \ {<<>>} \subseteq dstDirs[d]

\* C8: when the source root cannot be enumerated, a destination's run ends in an
\* error outcome reported to the user, never as completed with no file processed.
C8_ScanErrorReported ==
    \A d \in DestSet :
      (srcState = "unreadable" /\ reach[d] \notin {"none", "unreachable"})
        => (reach[d] = "failed" /\ \E i \in 1..Len(dialogs) : dialogs[i] = "Copy Failed")

C9_State ==
    /\ \A d \in DestSet : \A f \in AllFiles(srcTree) :
         "Error" \in log[d][f] => log[d][f] = {"Error"}
    /\ (last.valid /\ last.attempted /\ ~last.ok)
         => "Error" \in log[last.dest][last.file]
    /\ \A d \in DestSet :
         reach[d] = "completed" => \A f \in WalkFiles : Processed(d, f)

\* the step that fails to copy a file leaves the run in the walk
C9_Step ==
    (pc = "file" /\ last' # last /\ ~last'.ok)
      => (pc' \in {"file", "dir", "end"} /\ reach' = reach /\ idx' = idx
          /\ dialogs' = dialogs /\ copied' = copied + 1)

====
